---- MODULE Spec2Model ----
(***************************************************************************)
(* Model of magenta/lib/sequences_lib.py (QuantizedSequence) and of        *)
(* magenta/models/attention_rnn/attention_rnn_encoder_decoder.py           *)
(* (MelodyEncoderDecoder).                                                 *)
(*                                                                         *)
(* Numbers.  Python floats are modelled as exact rationals.  A time is an  *)
(* integer count of 1/TimeDen seconds, bpm is an integer, and the product  *)
(* time * steps_per_second is the rational                                 *)
(*     (t * steps_per_beat * bpm) / (TimeDen * 60).                        *)
(* Feature values 1.0 / 0.0 / -1.0 are the integers 1 / 0 / -1.            *)
(* Python's None is the empty sequence and a present value x is <<x>>.     *)
(***************************************************************************)
EXTENDS Integers, Sequences, FiniteSets, TLC

VARIABLES qs, call, events, label, decoded, generated, input_, enc, events_at_call

vars == <<qs, call, events, label, decoded, generated, input_, enc, events_at_call>>

None == <<>>
Some(x) == <<x>>

(***************************************************************************)
(* Bounds of the model.                                                    *)
(***************************************************************************)
\* longest note list handed to from_note_sequence
MaxNotes == 2
\* times are integer multiples of 1/TimeDen seconds
TimeDen == 16

(***************************************************************************)
(* sequences_lib.py                                                        *)
(***************************************************************************)

\* QUANTIZE_CUTOFF = 0.5, held as twice its value
QUANTIZE_CUTOFF_x2 == 1

Note(pitch, velocity, start, end, instrument, program) ==
  [pitch |-> pitch, velocity |-> velocity, start |-> start, end |-> end,
   instrument |-> instrument, program |-> program]

TimeSignature(numerator, denominator) ==
  [numerator |-> numerator, denominator |-> denominator]

\* x & y on naturals
RECURSIVE BitAnd(_, _)
BitAnd(x, y) ==
  IF x = 0 \/ y = 0 THEN 0
  ELSE (IF x % 2 = 1 /\ y % 2 = 1 THEN 1 ELSE 0) + 2 * BitAnd(x \div 2, y \div 2)

\* is_power_of_2(x): x and not x & (x - 1).  For a negative x both operands of
\* & are negative, so the result is negative and the test is false.
is_power_of_2(x) ==
  IF x = 0 THEN FALSE
  ELSE IF x < 0 THEN FALSE
  ELSE BitAnd(x, x - 1) = 0

\* Python int() of the rational n/d (d > 0): truncation toward zero
int(n, d) == IF n >= 0 THEN n \div d ELSE -((-n) \div d)

\* a mutation of quantize: the cutoff term is dropped, int(x)
quantize_trunc(n, d) == int(n, d)

\* quantize = lambda x: int(x + (1 - QUANTIZE_CUTOFF)), x = n/d, d > 0
quantize(n, d) == int(2 * n + (2 - QUANTIZE_CUTOFF_x2) * d, 2 * d)

\* a mutation of _reset: the default tempo is 60
reset_bpm60 ==
  [tracks |-> [i \in {} |-> <<>>], bpm |-> 60,
   time_signature |-> TimeSignature(4, 4), steps_per_beat |-> 4]

\* QuantizedSequence._reset (and the state after __init__)
reset ==
  [tracks |-> [i \in {} |-> <<>>], bpm |-> 120,
   time_signature |-> TimeSignature(4, 4), steps_per_beat |-> 4]

\* self.tracks[note.instrument].append(n), creating the track when missing
AppendToTrack(tracks, instrument, n) ==
  IF instrument \in DOMAIN tracks
    THEN [tracks EXCEPT ![instrument] = Append(@, n)]
    ELSE [i \in DOMAIN tracks \cup {instrument} |->
            IF i = instrument THEN <<n>> ELSE tracks[i]]

\* numerator and denominator of note time t (in 1/TimeDen s) times
\* steps_per_second = steps_per_beat * bpm / 60.0
StepNum(t, steps_per_beat, bpm) == t * steps_per_beat * bpm
StepDen == TimeDen * 60

\* start_step and end_step of one input note, lines 134-137
QuantizeNote(note, steps_per_beat, bpm) ==
  LET start_step == quantize(StepNum(note.start_time, steps_per_beat, bpm), StepDen)
      end_step   == quantize(StepNum(note.end_time, steps_per_beat, bpm), StepDen)
  IN  [start_step |-> start_step,
       end_step   |-> IF end_step = start_step THEN end_step + 1 ELSE end_step]

\* the loop "for note in note_sequence.notes" from note i on; the result is the
\* tracks built and whether BadNoteException was raised
RECURSIVE NoteLoop(_, _, _, _, _)
NoteLoop(tracks, notes, i, steps_per_beat, bpm) ==
  IF i > Len(notes) THEN [tracks |-> tracks, raised |-> "none"]
  ELSE
    LET note == notes[i]
        q    == QuantizeNote(note, steps_per_beat, bpm)
    IN  IF q.start_step < 0 \/ q.end_step < 0
          THEN [tracks |-> tracks, raised |-> "BadNote"]
          ELSE NoteLoop(AppendToTrack(tracks, note.instrument,
                                      Note(note.pitch, note.velocity, q.start_step,
                                           q.end_step, note.instrument, note.program)),
                        notes, i + 1, steps_per_beat, bpm)

\* QuantizedSequence.from_note_sequence: the object's fields when the call
\* ends, and the exception it ended with ("none" for a normal return)
from_note_sequence(note_sequence, steps_per_beat) ==
  LET s1 == [reset EXCEPT !.steps_per_beat = steps_per_beat]
  IN
  IF Len(note_sequence.time_signatures) > 1
    THEN [self |-> s1, raised |-> "MultipleTimeSignature"]
  ELSE
    LET s2 == IF Len(note_sequence.time_signatures) > 0
                THEN [s1 EXCEPT !.time_signature =
                        TimeSignature(note_sequence.time_signatures[1].numerator,
                                      note_sequence.time_signatures[1].denominator)]
                ELSE s1
    IN
    IF ~ is_power_of_2(s2.time_signature.denominator)
      THEN [self |-> s2, raised |-> "BadTimeSignature"]
    ELSE
      LET bpm  == IF Len(note_sequence.tempos) > 0
                    THEN note_sequence.tempos[1].bpm ELSE 120
          loop == NoteLoop(s2.tracks, note_sequence.notes, 1, steps_per_beat, bpm)
      IN  [self |-> [s2 EXCEPT !.bpm = bpm, !.tracks = loop.tracks],
           raised |-> loop.raised]

\* set(list)
ToSet(s) == {s[i] : i \in DOMAIN s}

\* a mutation of __eq__: the tracks are compared as lists
eq_ordered(self, other) ==
  /\ \A track \in DOMAIN self.tracks :
        /\ track \in DOMAIN other.tracks
        /\ self.tracks[track] = other.tracks[track]
  /\ self.bpm = other.bpm
  /\ self.time_signature = other.time_signature
  /\ self.steps_per_beat = other.steps_per_beat

\* QuantizedSequence.__eq__ between two QuantizedSequence objects
eq(self, other) ==
  /\ \A track \in DOMAIN self.tracks :
        /\ track \in DOMAIN other.tracks
        /\ ToSet(self.tracks[track]) = ToSet(other.tracks[track])
  /\ self.bpm = other.bpm
  /\ self.time_signature = other.time_signature
  /\ self.steps_per_beat = other.steps_per_beat

(***************************************************************************)
(* Inputs of from_note_sequence                                            *)
(***************************************************************************)

InNote(pitch, velocity, start_time, end_time, instrument, program) ==
  [pitch |-> pitch, velocity |-> velocity, start_time |-> start_time,
   end_time |-> end_time, instrument |-> instrument, program |-> program]

\* Times in 1/16 s.  At 4 steps per second (60 bpm, 4 steps per beat) a step
\* is 4 units: the first note starts on a tie (0.5 step) and ends in the same
\* step, the second ends before it starts, the third starts 0.75 step before
\* time zero, the fourth ends 2 steps before time zero.
TestNotes ==
  { InNote(11, 55, 2, 5, 1, 0),
    InNote(40, 45, 6, 1, 1, 1),
    InNote(55, 120, -3, 4, 0, 0),
    InNote(52, 99, 2, -8, 0, 0) }

\* note lists for the comparison of two sequences: two notes of track 1 in
\* both orders, with and without a note of track 0
EqNoteLists ==
  LET n0 == InNote(12, 100, 0, 2, 0, 0)
      n1 == InNote(11, 55, 2, 5, 1, 0)
      n2 == InNote(40, 45, 6, 9, 1, 1)
  IN  { <<>>, <<n0>>, <<n1>>, <<n1, n2>>, <<n2, n1>>, <<n0, n1>> }

SeqsUpTo(S, n) == UNION {[1..k -> S] : k \in 0..n}

TimeSignatureInputs ==
  { <<>>, <<TimeSignature(3, 4)>>, <<TimeSignature(4, 3)>>,
    <<TimeSignature(4, 4), TimeSignature(3, 4)>> }

TempoInputs == { <<>>, <<[bpm |-> 60]>> }

StepsPerBeatInputs == {4, 8}

\* the calls of the one-object and of the two-object specification
LoadInputsQ ==
  [notes : SeqsUpTo(TestNotes, MaxNotes), tempos : TempoInputs,
   time_signatures : TimeSignatureInputs]
LoadInputsEq ==
  [notes : EqNoteLists, tempos : TempoInputs,
   time_signatures : {<<>>, <<TimeSignature(3, 4)>>}]

Objs == {"a", "b"}

(***************************************************************************)
(* Actions                                                                 *)
(***************************************************************************)

NoCall == [self |-> "a", note_sequence |-> [notes |-> <<>>, tempos |-> <<>>,
                                             time_signatures |-> <<>>],
           steps_per_beat |-> 4, raised |-> "nocall"]

MelodyVarsUnchanged ==
  UNCHANGED <<events, label, decoded, generated, input_, enc, events_at_call>>

\* o.from_note_sequence(note_sequence, steps_per_beat)
FromNoteSequence(o, note_sequence, steps_per_beat) ==
  LET r == from_note_sequence(note_sequence, steps_per_beat)
  IN  /\ qs' = [qs EXCEPT ![o] = r.self]
      /\ call' = [self |-> o, note_sequence |-> note_sequence,
                  steps_per_beat |-> steps_per_beat, raised |-> r.raised]
      /\ MelodyVarsUnchanged

InitQ ==
  /\ qs = [o \in Objs |-> reset]
  /\ call = NoCall
  /\ events = <<>>
  /\ label = None
  /\ decoded = None
  /\ generated = None
  /\ input_ = None
  /\ enc = "nocall"
  /\ events_at_call = <<>>

\* one QuantizedSequence, loaded again and again
NextQ ==
  \E ns \in LoadInputsQ, spb \in StepsPerBeatInputs :
     FromNoteSequence("a", ns, spb)

SpecQ == InitQ /\ [][NextQ]_vars

\* two QuantizedSequences, each loaded again and again
NextEq ==
  \E o \in Objs, spb \in StepsPerBeatInputs,
     ns \in LoadInputsEq :
     FromNoteSequence(o, ns, spb)

SpecEq == InitQ /\ [][NextEq]_vars

(***************************************************************************)
(* melodies_lib: the constants and the melody queries the codec uses       *)
(***************************************************************************)

NUM_SPECIAL_EVENTS == 2
NOTE_OFF == -1
NO_EVENT == -2
MIN_MIDI_PITCH == 0
NOTES_PER_OCTAVE == 12

\* the pitch classes of the major scale, relative to the key
MajorScale == {0, 2, 4, 5, 7, 9, 11}

\* MonophonicMelody.get_major_key_histogram on the event list evts: for each
\* of the 12 keys, how many note events lie in that key's major scale
get_major_key_histogram(evts) ==
  [key \in 0..(NOTES_PER_OCTAVE - 1) |->
     Cardinality({i \in DOMAIN evts :
                    /\ evts[i] >= MIN_MIDI_PITCH
                    /\ ((evts[i] + NOTES_PER_OCTAVE - key) % NOTES_PER_OCTAVE) \in MajorScale})]

(***************************************************************************)
(* attention_rnn_encoder_decoder.py                                        *)
(***************************************************************************)

STEPS_PER_BAR == 16
MIN_NOTE == 48
MAX_NOTE == 84
NUM_SPECIAL_INPUTS == 14 + NOTES_PER_OCTAVE * 2
NUM_SPECIAL_CLASSES == 2
NUM_BINARY_TIME_COUNTERS == 7

min_note == MIN_NOTE
max_note == MAX_NOTE
note_range == max_note - min_note
input_size == note_range + NUM_SPECIAL_INPUTS
num_classes == note_range + NUM_SPECIAL_EVENTS + NUM_SPECIAL_CLASSES

\* evts[-k] of Python, k >= 1
FromEnd(evts, k) == evts[Len(evts) - k + 1]

RECURSIVE Pow2(_)
Pow2(i) == IF i = 0 THEN 1 ELSE 2 * Pow2(i - 1)

Max(S) == CHOOSE x \in S : \A y \in S : y <= x

\* the locals of melody_to_input before the loop over melody.events
ScanInit ==
  [current_note |-> None, is_attack |-> FALSE, is_ascending |-> None,
   last_3_notes |-> <<>>]

\* last_3_notes.remove(note) when present, then append on a deque(maxlen=3)
PushDistinct(last_3_notes, note) ==
  LET removed == SelectSeq(last_3_notes, LAMBDA x : x # note)
  IN  IF Len(removed) = 3 THEN Append(Tail(removed), note) ELSE Append(removed, note)

\* a mutation of ScanStep: a note-off also clears is_attack
ScanStep_offclears(st, note) ==
  IF note = NO_EVENT THEN [st EXCEPT !.is_attack = FALSE]
  ELSE IF note = NOTE_OFF THEN [st EXCEPT !.current_note = None, !.is_attack = FALSE]
  ELSE [current_note |-> Some(note),
        is_attack |-> TRUE,
        is_ascending |->
          IF st.last_3_notes # <<>>
            THEN IF note < FromEnd(st.last_3_notes, 1) THEN Some(FALSE)
                 ELSE IF note > FromEnd(st.last_3_notes, 1) THEN Some(TRUE)
                 ELSE st.is_ascending
            ELSE st.is_ascending,
        last_3_notes |-> PushDistinct(st.last_3_notes, note)]

\* one iteration of "for note in melody.events"
ScanStep(st, note) ==
  IF note = NO_EVENT THEN [st EXCEPT !.is_attack = FALSE]
  ELSE IF note = NOTE_OFF THEN [st EXCEPT !.current_note = None]
  ELSE [current_note |-> Some(note),
        is_attack |-> TRUE,
        is_ascending |->
          IF st.last_3_notes # <<>>
            THEN IF note < FromEnd(st.last_3_notes, 1) THEN Some(FALSE)
                 ELSE IF note > FromEnd(st.last_3_notes, 1) THEN Some(TRUE)
                 ELSE st.is_ascending
            ELSE st.is_ascending,
        last_3_notes |-> PushDistinct(st.last_3_notes, note)]

\* the loop over melody.events from event i on
RECURSIVE ScanFrom(_, _, _)
ScanFrom(st, evts, i) ==
  IF i > Len(evts) THEN st ELSE ScanFrom(ScanStep(st, evts[i]), evts, i + 1)

Scan(evts) == ScanFrom(ScanInit, evts, 1)

\* list(last_3_notes), the list put in melody.events for the second query
ScratchEvents(evts) == Scan(evts).last_3_notes

\* the list input_ that melody_to_input returns for the event list evts
InputVector(evts) ==
  LET st    == Scan(evts)
      n     == Len(evts)
      key_histogram == get_major_key_histogram(evts)
      max_val       == Max({key_histogram[k] : k \in DOMAIN key_histogram})
      key_histogram_3 == get_major_key_histogram(st.last_3_notes)
      max_val_3       == Max({key_histogram_3[k] : k \in DOMAIN key_histogram_3})
      playing == st.current_note # None /\ st.current_note[1] # 0
  IN  [k \in 0..(input_size - 1) |->
        IF k < note_range
          THEN IF playing /\ k = st.current_note[1] - min_note THEN 1 ELSE 0
        ELSE IF k = note_range THEN (IF playing THEN 1 ELSE 0)
        ELSE IF k = note_range + 1 THEN (IF playing THEN 0 ELSE 1)
        ELSE IF k = note_range + 2 THEN (IF st.is_attack THEN 1 ELSE 0)
        ELSE IF k = note_range + 3
          THEN IF st.is_ascending = None THEN 0
               ELSE IF st.is_ascending[1] THEN 1 ELSE -1
        ELSE IF k = note_range + 4
          THEN IF n >= STEPS_PER_BAR + 1
                  /\ FromEnd(evts, 1) = FromEnd(evts, STEPS_PER_BAR + 1)
                 THEN 1 ELSE 0
        ELSE IF k = note_range + 5
          THEN IF n >= 2 * STEPS_PER_BAR + 1
                  /\ FromEnd(evts, 1) = FromEnd(evts, 2 * STEPS_PER_BAR + 1)
                 THEN 1 ELSE 0
        ELSE IF k < note_range + 6 + NUM_BINARY_TIME_COUNTERS
          THEN IF (n \div Pow2(k - (note_range + 6))) % 2 # 0 THEN 1 ELSE -1
        ELSE IF k = note_range + 13
          THEN IF n % STEPS_PER_BAR = 0 THEN 1 ELSE 0
        ELSE IF k < note_range + 14 + NOTES_PER_OCTAVE
          THEN IF key_histogram[k - (note_range + 14)] = max_val THEN 1 ELSE 0
        ELSE IF key_histogram_3[k - (note_range + 14 + NOTES_PER_OCTAVE)] = max_val_3
               THEN 1 ELSE 0]

\* a mutation of EventsOnReturn: the backup is not put back
EventsOnReturn_scratch(melody_events_backup, scratch) == scratch

\* melody.events = melody_events_backup, the last statement before the return
EventsOnReturn(melody_events_backup, scratch) == melody_events_backup

\* a mutation of melody_to_label: the 1-bar test comes first
melody_to_label_1bar_first(evts) ==
  IF Len(evts) > STEPS_PER_BAR
     /\ FromEnd(evts, 1) = FromEnd(evts, STEPS_PER_BAR + 1)
    THEN note_range + 2
  ELSE IF \/ (Len(evts) <= 2 * STEPS_PER_BAR /\ FromEnd(evts, 1) = NO_EVENT)
          \/ (Len(evts) > 2 * STEPS_PER_BAR
              /\ FromEnd(evts, 1) = FromEnd(evts, 2 * STEPS_PER_BAR + 1))
    THEN note_range + 3
  ELSE IF FromEnd(evts, 1) = NOTE_OFF THEN note_range + 1
  ELSE IF FromEnd(evts, 1) = NO_EVENT THEN note_range
  ELSE FromEnd(evts, 1) - min_note

\* MelodyEncoderDecoder.melody_to_label, evts = melody.events (non-empty)
melody_to_label(evts) ==
  IF \/ (Len(evts) <= 2 * STEPS_PER_BAR /\ FromEnd(evts, 1) = NO_EVENT)
     \/ (Len(evts) > 2 * STEPS_PER_BAR
         /\ FromEnd(evts, 1) = FromEnd(evts, 2 * STEPS_PER_BAR + 1))
    THEN note_range + 3
  ELSE IF Len(evts) > STEPS_PER_BAR
          /\ FromEnd(evts, 1) = FromEnd(evts, STEPS_PER_BAR + 1)
    THEN note_range + 2
  ELSE IF FromEnd(evts, 1) = NOTE_OFF THEN note_range + 1
  ELSE IF FromEnd(evts, 1) = NO_EVENT THEN note_range
  ELSE FromEnd(evts, 1) - min_note

\* a mutation of class_index_to_melody_event: the note-off class gives no-event
class_index_to_melody_event_nooff(class_index, evts) ==
  IF class_index = note_range + 3
    THEN IF Len(evts) < 2 * STEPS_PER_BAR THEN NO_EVENT
         ELSE FromEnd(evts, 2 * STEPS_PER_BAR)
  ELSE IF class_index = note_range + 2
    THEN IF Len(evts) < STEPS_PER_BAR THEN NO_EVENT
         ELSE FromEnd(evts, STEPS_PER_BAR)
  ELSE IF class_index = note_range + 1 THEN NO_EVENT
  ELSE IF class_index = note_range THEN NO_EVENT
  ELSE min_note + class_index

\* a mutation of class_index_to_melody_event: a history of exactly 1 or 2
\* bars counts as too short (<= for <)
class_index_to_melody_event_le(class_index, evts) ==
  IF class_index = note_range + 3
    THEN IF Len(evts) <= 2 * STEPS_PER_BAR THEN NO_EVENT
         ELSE FromEnd(evts, 2 * STEPS_PER_BAR)
  ELSE IF class_index = note_range + 2
    THEN IF Len(evts) <= STEPS_PER_BAR THEN NO_EVENT
         ELSE FromEnd(evts, STEPS_PER_BAR)
  ELSE IF class_index = note_range + 1 THEN NOTE_OFF
  ELSE IF class_index = note_range THEN NO_EVENT
  ELSE min_note + class_index

\* MelodyEncoderDecoder.class_index_to_melody_event, evts = melody.events
class_index_to_melody_event(class_index, evts) ==
  IF class_index = note_range + 3
    THEN IF Len(evts) < 2 * STEPS_PER_BAR THEN NO_EVENT
         ELSE FromEnd(evts, 2 * STEPS_PER_BAR)
  ELSE IF class_index = note_range + 2
    THEN IF Len(evts) < STEPS_PER_BAR THEN NO_EVENT
         ELSE FromEnd(evts, STEPS_PER_BAR)
  ELSE IF class_index = note_range + 1 THEN NOTE_OFF
  ELSE IF class_index = note_range THEN NO_EVENT
  ELSE min_note + class_index

(***************************************************************************)
(* Melodies handed to the codec                                            *)
(***************************************************************************)

\* longest melody of the label/decode specification
MaxLen == 34
\* longest melody of the encode specification that is enumerated event by event
MaxShortLen == 4

MelodyEvents == {NO_EVENT, NOTE_OFF, MIN_NOTE, MAX_NOTE - 1}

\* a melody of n events: the last event, the events 1 bar and 2 bars before
\* it, the events right after those, and one event everywhere else
BarMelody(n, last, bar1, after1, bar2, after2, fill) ==
  [i \in 1..n |->
     IF i = n THEN last
     ELSE IF i = n - STEPS_PER_BAR THEN bar1
     ELSE IF i = n - STEPS_PER_BAR + 1 THEN after1
     ELSE IF i = n - 2 * STEPS_PER_BAR THEN bar2
     ELSE IF i = n - 2 * STEPS_PER_BAR + 1 THEN after2
     ELSE fill]

LabelMelodies ==
  { BarMelody(n, last, bar1, after1, bar2, after2, fill) :
      n \in 1..MaxLen, last \in MelodyEvents, bar1 \in MelodyEvents,
      after1 \in MelodyEvents, bar2 \in MelodyEvents, after2 \in MelodyEvents,
      fill \in {NO_EVENT, MIN_NOTE} }

EncodeEvents == {NO_EVENT, NOTE_OFF, MIN_NOTE, 60, 62, MAX_NOTE - 1}

EncodeMelodies ==
  SeqsUpTo(EncodeEvents, MaxShortLen)
  \cup { BarMelody(n, last, bar1, NO_EVENT, bar2, NO_EVENT, 60) :
           n \in {STEPS_PER_BAR, STEPS_PER_BAR + 1, 2 * STEPS_PER_BAR,
                  2 * STEPS_PER_BAR + 1},
           last \in {NO_EVENT, 62}, bar1 \in {NO_EVENT, 62}, bar2 \in {NO_EVENT, 62} }

(***************************************************************************)
(* Actions of the codec                                                    *)
(***************************************************************************)

QuantizerVarsUnchanged == UNCHANGED <<qs, call>>

\* label = melody_to_label(melody)
MelodyToLabel ==
  /\ Len(events) > 0
  /\ label' = Some(melody_to_label(events))
  /\ UNCHANGED <<events, decoded, generated, input_, enc, events_at_call>>
  /\ QuantizerVarsUnchanged

\* class_index_to_melody_event(label, melody), on the melody that was labelled
ClassIndexToMelodyEvent ==
  /\ label # None
  /\ decoded' = Some(class_index_to_melody_event(label[1], events))
  /\ UNCHANGED <<events, label, generated, input_, enc, events_at_call>>
  /\ QuantizerVarsUnchanged

\* class_index_to_melody_event(label, melody) on the melody as it was before
\* its last event was appended (melody.events[:-1]), the way a generated
\* class index is turned into the next event
ClassIndexToNextMelodyEvent ==
  /\ label # None
  /\ generated' = Some(class_index_to_melody_event(label[1], SubSeq(events, 1, Len(events) - 1)))
  /\ UNCHANGED <<events, label, decoded, input_, enc, events_at_call>>
  /\ QuantizerVarsUnchanged

\* melody_to_input(melody) when both key-histogram queries return
MelodyToInputReturns ==
  /\ events_at_call' = events
  /\ events' = EventsOnReturn(events, ScratchEvents(events))
  /\ input_' = Some(InputVector(events))
  /\ enc' = "returned"
  /\ UNCHANGED <<label, decoded, generated>>
  /\ QuantizerVarsUnchanged

\* melody_to_input(melody) when the query on the whole melody (or max() of
\* its result) raises: nothing has been assigned to melody.events yet
MelodyToInputRaisesFirst ==
  /\ events_at_call' = events
  /\ events' = events
  /\ input_' = None
  /\ enc' = "raised"
  /\ UNCHANGED <<label, decoded, generated>>
  /\ QuantizerVarsUnchanged

\* melody_to_input(melody) when the query on the scratch list (or max() of its
\* result) raises: the exception leaves the function past the substitution
MelodyToInputRaisesScratch ==
  /\ events_at_call' = events
  /\ events' = ScratchEvents(events)
  /\ input_' = None
  /\ enc' = "raised_in_scratch"
  /\ UNCHANGED <<label, decoded, generated>>
  /\ QuantizerVarsUnchanged

MelodyToInput ==
  \/ MelodyToInputReturns
  \/ MelodyToInputRaisesFirst
  \/ MelodyToInputRaisesScratch

InitCodec(melodies) ==
  /\ qs = [o \in Objs |-> reset]
  /\ call = NoCall
  /\ events \in melodies
  /\ label = None
  /\ decoded = None
  /\ generated = None
  /\ input_ = None
  /\ enc = "nocall"
  /\ events_at_call = <<>>

InitL == InitCodec(LabelMelodies)
NextL == MelodyToLabel \/ ClassIndexToMelodyEvent \/ ClassIndexToNextMelodyEvent
SpecL == InitL /\ [][NextL]_vars

InitE == InitCodec(EncodeMelodies)
NextE == MelodyToInput
SpecE == InitE /\ [][NextE]_vars

(***************************************************************************)
(* Properties of QuantizedSequence                                         *)
(***************************************************************************)

Loaded == qs[call.self]
CallNotes == call.note_sequence.notes
CallSigs == call.note_sequence.time_signatures
CallTempos == call.note_sequence.tempos

\* floor(t * steps_per_second + 0.5) with steps_per_second = steps_per_beat * bpm / 60
FloorHalfUp(t, steps_per_beat, bpm) ==
  (2 * t * steps_per_beat * bpm + TimeDen * 60) \div (2 * TimeDen * 60)

\* t * steps_per_second lies exactly half a step past a step boundary
IsTie(t, steps_per_beat, bpm) ==
  (2 * t * steps_per_beat * bpm + TimeDen * 60) % (2 * TimeDen * 60) = 0

\* the Note stored for the i-th input note of the last call: the k-th note of
\* its track, k counting the input notes of that instrument up to i
StoredNote(i) ==
  LET k == Cardinality({j \in 1..i : CallNotes[j].instrument = CallNotes[i].instrument})
  IN  Loaded.tracks[CallNotes[i].instrument][k]

SameTracks(x, y) ==
  /\ DOMAIN x.tracks = DOMAIN y.tracks
  /\ \A k \in DOMAIN x.tracks : ToSet(x.tracks[k]) = ToSet(y.tracks[k])

\* C2: a == b holds exactly when bpm, time_signature and steps_per_beat agree,
\* the track keys are the same and every track holds the same set of notes;
\* a == b and b == a give the same answer.
C2_EqualityIsFieldwise ==
  /\ eq(qs["a"], qs["b"]) <=>
       /\ qs["a"].bpm = qs["b"].bpm
       /\ qs["a"].time_signature = qs["b"].time_signature
       /\ qs["a"].steps_per_beat = qs["b"].steps_per_beat
       /\ SameTracks(qs["a"], qs["b"])
  /\ eq(qs["a"], qs["b"]) <=> eq(qs["b"], qs["a"])

LoadErrors == {"MultipleTimeSignature", "BadTimeSignature", "BadNote"}

\* C3 as stated: a failed load leaves tracks empty, bpm 120.0, time_signature
\* 4/4 and steps_per_beat 4.
C3_FailedLoadLeavesDefaults ==
  call.raised \in LoadErrors =>
    /\ DOMAIN Loaded.tracks = {}
    /\ Loaded.bpm = 120
    /\ Loaded.time_signature = TimeSignature(4, 4)
    /\ Loaded.steps_per_beat = 4

\* the tracks hold exactly the first n input notes: same instruments, and in
\* every track the notes of that instrument in input order
TracksHoldPrefix(n) ==
  /\ DOMAIN Loaded.tracks = {CallNotes[j].instrument : j \in 1..n}
  /\ \A k \in DOMAIN Loaded.tracks :
       /\ Len(Loaded.tracks[k]) = Cardinality({j \in 1..n : CallNotes[j].instrument = k})
  /\ \A j \in 1..n :
       /\ StoredNote(j).pitch = CallNotes[j].pitch
       /\ StoredNote(j).velocity = CallNotes[j].velocity
       /\ StoredNote(j).instrument = CallNotes[j].instrument
       /\ StoredNote(j).program = CallNotes[j].program

SuppliedSignature ==
  IF Len(CallSigs) > 0
    THEN TimeSignature(CallSigs[1].numerator, CallSigs[1].denominator)
    ELSE TimeSignature(4, 4)

\* C3 as amended: a failed load leaves what the load had assigned up to the
\* failure and nothing of the earlier state.  steps_per_beat is the argument;
\* after MultipleTimeSignature the rest is default (no tracks, 120.0, 4/4);
\* after BadTimeSignature there are no tracks, bpm is 120.0 and
\* time_signature is the rejected one; after BadNote time_signature and bpm
\* are those of the input (or the defaults) and the tracks hold the notes
\* that precede the rejected note.
C3_FailedLoadState ==
  /\ call.raised \in LoadErrors => Loaded.steps_per_beat = call.steps_per_beat
  /\ call.raised = "MultipleTimeSignature" =>
       /\ DOMAIN Loaded.tracks = {}
       /\ Loaded.bpm = 120
       /\ Loaded.time_signature = TimeSignature(4, 4)
  /\ call.raised = "BadTimeSignature" =>
       /\ DOMAIN Loaded.tracks = {}
       /\ Loaded.bpm = 120
       /\ Loaded.time_signature = SuppliedSignature
  /\ call.raised = "BadNote" =>
       /\ Loaded.bpm = (IF Len(CallTempos) > 0 THEN CallTempos[1].bpm ELSE 120)
       /\ Loaded.time_signature = SuppliedSignature
       /\ \E n \in 0..(Len(CallNotes) - 1) : TracksHoldPrefix(n)

\* a load that failed with BadNote after it had stored a note
C3_Witness ==
  /\ call.raised = "BadNote"
  /\ DOMAIN Loaded.tracks # {}
  /\ Loaded.steps_per_beat # 4

\* C4: a load with at most one time signature and a power-of-two denominator
\* fails with BadNote whenever floor(start_time * sps + 0.5) < 0 or
\* floor(end_time * sps + 0.5) < 0 for some input note.
C4_NegativeFloorStepRaises ==
  LET bpm == IF Len(CallTempos) > 0 THEN CallTempos[1].bpm ELSE 120
  IN
  ( /\ call.raised # "nocall"
    /\ Len(CallSigs) <= 1
    /\ SuppliedSignature.denominator \in {1, 2, 4, 8, 16, 32, 64}
    /\ \E i \in DOMAIN CallNotes :
         \/ FloorHalfUp(CallNotes[i].start_time, call.steps_per_beat, bpm) < 0
         \/ FloorHalfUp(CallNotes[i].end_time, call.steps_per_beat, bpm) < 0 )
  => call.raised = "BadNote"

\* C5: every Note held in tracks has end strictly greater than start.
C5_EndAfterStart ==
  \A o \in Objs : \A k \in DOMAIN qs[o].tracks :
    \A i \in DOMAIN qs[o].tracks[k] :
      qs[o].tracks[k][i].end > qs[o].tracks[k][i].start

(***************************************************************************)
(* Properties of MelodyEncoderDecoder                                      *)
(***************************************************************************)

LastEvent(evts) == evts[Len(evts)]
IsPitch(e) == e # NO_EVENT /\ e # NOTE_OFF

\* C6: melody_to_label returns the class of the first matching case, in the
\* order 2-bar repeat (or no-event on a history of at most 32 events), 1-bar
\* repeat, note-off, no-event, pitch; when the events 16 and 32 steps before
\* the last one both equal it, the class is note_range + 3.
C6_LabelPrecedence ==
  label # None =>
    LET n    == Len(events)
        last == events[n]
    IN  /\ label[1] =
             IF (n > 32 /\ last = events[n - 32]) \/ (n <= 32 /\ last = NO_EVENT)
               THEN note_range + 3
             ELSE IF n > 16 /\ last = events[n - 16] THEN note_range + 2
             ELSE IF last = NOTE_OFF THEN note_range + 1
             ELSE IF last = NO_EVENT THEN note_range
             ELSE last - min_note
        /\ (n > 32 /\ last = events[n - 16] /\ last = events[n - 32])
              => label[1] = note_range + 3

\* a labelled melody whose last pitch also stands 1 bar and 2 bars earlier
C6_Witness ==
  /\ label # None
  /\ Len(events) > 32
  /\ IsPitch(LastEvent(events))
  /\ LastEvent(events) = events[Len(events) - 16]
  /\ LastEvent(events) = events[Len(events) - 32]
  /\ label[1] = note_range + 3

\* C7 as stated: class_index_to_melody_event(melody_to_label(m), m) is the
\* last event of m, for every class.
C7_DecodeInvertsLabel ==
  decoded # None => decoded[1] = LastEvent(events)

\* C7 as amended: on the same melody m, decode(label(m), m) is the last event
\* of m when the label is a pitch class, the no-event class or the note-off
\* class, and when it is the 2-bar class on fewer than 32 events.  For the
\* 1-bar class it is m.events[-16] and for the 2-bar class on 32 events or
\* more it is m.events[-32]: the event one step after the repeated one.
C7_DecodeOnSameMelody ==
  decoded # None =>
    LET n == Len(events)
    IN  /\ label[1] < note_range + 2 => decoded[1] = LastEvent(events)
        /\ (label[1] = note_range + 3 /\ n < 32) => decoded[1] = LastEvent(events)
        /\ (label[1] = note_range + 3 /\ n >= 32) => decoded[1] = events[n - 31]
        /\ label[1] = note_range + 2 => decoded[1] = events[n - 15]

\* a 2-bar repeat decoded on the melody that was labelled gives another event
C7_Witness ==
  /\ decoded # None
  /\ label[1] = note_range + 3
  /\ Len(events) > 32
  /\ decoded[1] = events[Len(events) - 31]
  /\ decoded[1] # LastEvent(events)

\* C8: when melody_to_input returns normally the melody's event list is what
\* it was before the call.
C8_EncodeRestoresEvents ==
  enc = "returned" => events = events_at_call

\* an encode that returned on a melody that differs from its scratch list of
\* three pitches
C8_Witness ==
  /\ enc = "returned"
  /\ input_ # None
  /\ Len(ScratchEvents(events_at_call)) = 3
  /\ ScratchEvents(events_at_call) # events_at_call

\* C9: however melody_to_input ends, by a return or by an error, the melody
\* holds its original event list and not the scratch list.
C9_EventsRestoredOnError ==
  enc \in {"returned", "raised", "raised_in_scratch"} => events = events_at_call

\* C10: in the returned vector the slot note_range + 2 is 1.0 exactly when
\* the last event of the melody is a note-on, and 0.0 otherwise.
C10_OnsetSlotFollowsLastEvent ==
  (enc = "returned" /\ Len(events_at_call) > 0) =>
    input_[1][note_range + 2] =
      IF IsPitch(LastEvent(events_at_call)) THEN 1 ELSE 0

\* C11: decoding the label of a melody m against m without its last event
\* gives back that last event: class_index_to_melody_event(melody_to_label(m),
\* m[:-1]) = m[-1], for all classes and all history lengths.
C11_GenerationRoundTrip ==
  generated # None => generated[1] = LastEvent(events)

\* a pitch that repeats the event 1 bar or 2 bars earlier, recovered from a
\* history of exactly 16 or 32 events
C11_Witness ==
  /\ generated # None
  /\ IsPitch(LastEvent(events))
  /\ \/ Len(events) = 17 /\ label[1] = note_range + 2
     \/ Len(events) = 33 /\ label[1] = note_range + 3
  /\ generated[1] = LastEvent(events)

====
